---- MODULE Spec2Model ----
(***************************************************************************)
(* SmartDFM: the DFM pipeline core/dfm_engine.py:run_all_checks and the    *)
(* five checks of core/dfm_checks, as pure operators over a triangle mesh, *)
(* driven by a caller that owns the arrays it passes in.                   *)
(*                                                                         *)
(* Number model.  Vertex coordinates are integers, so every cross product  *)
(* and dot product is an exact integer.  A cosine (or sine) of an angle is *)
(* kept exactly as a signed square root of a rational, sgn*sqrt(p/q), and  *)
(* an angle in degrees is represented by its cosine (arccos is strictly    *)
(* decreasing, so "angle > t" is "cos(angle) < cos(t)").  Lengths that the *)
(* code reports as floats (thickness, extents, thresholds) are fixed-point *)
(* integers, 100 units per model unit.  Arrays are functions over          *)
(* 0..n-1, indexed as numpy indexes them (negative indices wrap).          *)
(***************************************************************************)
EXTENDS Integers, Sequences, FiniteSets, TLC

\* ------------------------------------------------------------------ bounds
MaxV == 4          \* most vertices in a mesh
MaxF == 2          \* most faces in a mesh
MaxCalls == 2      \* most calls of run_all_checks on the same arrays
MaxOverrides == 1  \* most options a caller's configuration changes from the defaults

\* ------------------------------------------------------------------- state
\* The caller owns the mesh arrays, the pull-direction array and a configuration
\* record, and calls run_all_checks on them up to MaxCalls times.
VARIABLES
    vertices,        \* (V, 3) array of the caller
    faces,           \* (F, 3) index array of the caller
    pull_direction,  \* (3,) float array of the caller, or None
    config,          \* the thresholds the caller has configured
    outcome,         \* "none", "returned" or the name of the exception raised
    results,         \* the report of the last call, if it returned
    history,         \* one record per call made: the pull direction passed,
                     \* the outcome and the report
    \* core/loader.py: a call of load_mesh(path) on a file system
    files,           \* what each path names on disk
    path,            \* the argument of load_mesh ("" when it is not called)
    load_outcome,    \* "none", "returned" or the name of the exception raised
    loader_calls,    \* the library calls load_mesh has made, in order
    \* ui/main_window.py: the main window and what its handlers have done
    window,          \* the fields of MainWindow
    popups,          \* the message boxes shown by the last event, in order
    written,         \* the files written by export_dfm_report
    event            \* the last event handled ("none" before the first)

pipeline_vars == <<vertices, faces, pull_direction, config, outcome, results, history>>
loader_vars == <<files, path, load_outcome, loader_calls>>
ui_vars == <<window, popups, written, event>>
vars == <<vertices, faces, pull_direction, config, outcome, results, history,
          files, path, load_outcome, loader_calls, window, popups, written, event>>
Calls == Len(history)

\* ------------------------------------------------------- program constants
MIN_GLOBAL_THICKNESS == 50        \* 0.5 in fixed point
LOCAL_MIN_THICKNESS == 80         \* 0.8 in fixed point
SHARP_ANGLE_THRESHOLD_DEG == 60
DRAFT_MIN_ANGLE_DEG == 2
DEFAULT_UNDERCUT_ANGLE_DEG == 90
DEFAULT_RIB_BOSS_FACTOR == 150    \* 1.5 in hundredths
K_NEIGH == 32                     \* k = min(32, V) nearest neighbours
Infinity == 1000000000            \* np.inf: above every finite length

\* fixed point: a length x is held as the integer 100 * x
ToFixed(n) == 100 * n

None == <<>>                      \* Python None, also for an absent optional value

\* -------------------------------------------------------------- arithmetic
Abs(x) == IF x < 0 THEN -x ELSE x
Sign(x) == IF x < 0 THEN -1 ELSE IF x > 0 THEN 1 ELSE 0
Min2(a, b) == IF a <= b THEN a ELSE b

RECURSIVE GCD(_, _)
GCD(a, b) == IF b = 0 THEN a ELSE GCD(b, a % b)

\* floor of the square root, by bisection on [lo, hi)
RECURSIVE SqrtBetween(_, _, _)
SqrtBetween(n, lo, hi) ==
    IF hi - lo <= 1 THEN lo
    ELSE LET mid == (lo + hi) \div 2
         IN IF mid * mid <= n THEN SqrtBetween(n, mid, hi)
                              ELSE SqrtBetween(n, lo, mid)
ISqrt(n) == SqrtBetween(n, 0, Min2(n, 46340) + 1)

\* Only({e : x \in {v}}) is e with x bound to the value v
Only(S) == CHOOSE x \in S : TRUE
SetMin(S) == CHOOSE x \in S : \A y \in S : x <= y
SetMax(S) == CHOOSE x \in S : \A y \in S : x >= y

\* --- 3-vectors of integers
Zero3 == <<0, 0, 0>>
PlusZ == <<0, 0, 1>>
Add3(a, b) == <<a[1] + b[1], a[2] + b[2], a[3] + b[3]>>
Sub3(a, b) == <<a[1] - b[1], a[2] - b[2], a[3] - b[3]>>
Dot3(a, b) == a[1] * b[1] + a[2] * b[2] + a[3] * b[3]
Cross3(a, b) == <<a[2] * b[3] - a[3] * b[2],
                  a[3] * b[1] - a[1] * b[3],
                  a[1] * b[2] - a[2] * b[1]>>
Norm2(a) == Dot3(a, a)

\* --- exact value sgn * sqrt(p / q), p/q in lowest terms (zero is [0, 0, 1])
Surd(num, den2) ==
    IF num = 0 THEN [sgn |-> 0, p |-> 0, q |-> 1]
    ELSE LET g == GCD(num * num, den2)
         IN [sgn |-> Sign(num), p |-> (num * num) \div g, q |-> den2 \div g]
SurdZero == Surd(0, 1)
SurdLess(a, b) ==
    IF a.sgn # b.sgn THEN a.sgn < b.sgn
    ELSE IF a.sgn = 0 THEN FALSE
    ELSE IF a.sgn > 0 THEN a.p * b.q < b.p * a.q
    ELSE a.p * b.q > b.p * a.q
SurdLeq(a, b) == a = b \/ SurdLess(a, b)
SurdAbs(a) == [a EXCEPT !.sgn = Abs(a.sgn)]
SurdMin(S) == CHOOSE x \in S : \A y \in S : SurdLeq(x, y)

\* --- arrays: functions over 0..n-1
Len0(a) == Cardinality(DOMAIN a)
EmptyArray == <<>>
InRange(i, n) == -n <= i /\ i < n
PyIndex(i, n) == IF i < 0 THEN i + n ELSE i

\* ------------------------------------------------------------------ inputs
\* Vertex arrays are prefixes of two point pools.  PoolA opens a tetrahedron
\* corner (a solid with walls); PoolB puts a fourth point on the line through
\* the first two, so that a face over them has zero area.
PoolA == <<<<0, 0, 0>>, <<1, 0, 0>>, <<0, 1, 0>>, <<0, 0, 2>>, <<2, 0, 0>>, <<1, 1, 0>>>>
PoolB == <<<<0, 0, 0>>, <<1, 0, 0>>, <<0, 1, 0>>, <<2, 0, 0>>, <<0, 0, 2>>, <<1, 1, 0>>>>
Pools == {PoolA, PoolB}
VertexArrays == {[i \in 0..(n - 1) |-> pool[i + 1]] : n \in 0..MaxV, pool \in Pools}

\* Faces over V vertices: every triangle in both orientations, a face that
\* names one vertex twice, a negative (wrapping) index, and indices out of range.
FaceTriples(V) ==
    LET I == 0..(V - 1)
    IN {t \in I \X I \X I :
            \/ t[1] < t[2] /\ t[2] < t[3]
            \/ t[1] < t[3] /\ t[3] < t[2]
            \/ t[1] = t[2] /\ t[2] < t[3]}
       \cup {<<0, 0, V>>, <<0, 1, -1>>, <<-V - 1, 0, 0>>}
TripleLeq(s, t) ==
    \/ s[1] < t[1]
    \/ s[1] = t[1] /\ s[2] < t[2]
    \/ s[1] = t[1] /\ s[2] = t[2] /\ s[3] <= t[3]
\* face arrays are listed in non-decreasing order (the checks do not depend on
\* the order of the faces beyond the order of the entries of their masks)
FaceArrays(V) ==
    UNION {{f \in [0..(n - 1) -> FaceTriples(V)] :
              \A i \in 0..(n - 2) : TripleLeq(f[i], f[i + 1])} : n \in 0..MaxF}

\* Two meshes beside the enumerated ones.  A cube of side 10, closed, with
\* outward faces; and a mesh with more than K_NEIGH vertices: an 8 x 4 grid of
\* points in the plane z = 0 carrying one triangle, and one far point above it.
ToArray(seq) == [i \in 0..(Len(seq) - 1) |-> seq[i + 1]]
CubeVertices ==
    ToArray(<<<<0, 0, 0>>, <<0, 0, 10>>, <<0, 10, 0>>, <<0, 10, 10>>,
              <<10, 0, 0>>, <<10, 0, 10>>, <<10, 10, 0>>, <<10, 10, 10>>>>)
CubeFaces ==
    ToArray(<<<<0, 3, 2>>, <<0, 1, 3>>, <<4, 6, 7>>, <<4, 7, 5>>, <<0, 4, 5>>, <<0, 5, 1>>,
              <<2, 7, 6>>, <<2, 3, 7>>, <<0, 6, 4>>, <<0, 2, 6>>, <<1, 5, 7>>, <<1, 7, 3>>>>)
GridVertices ==
    [i \in 0..K_NEIGH |-> IF i < K_NEIGH THEN <<i \div 4, i % 4, 0>> ELSE <<0, 0, 100>>]
GridFaces == ToArray(<<<<0, 4, 1>>>>)
ScenarioMeshes == {[vertices |-> CubeVertices, faces |-> CubeFaces],
                   [vertices |-> GridVertices, faces |-> GridFaces]}

\* pull directions: None, the zero vector, unit and non-unit axis vectors
PullDirections == {None, Zero3, PlusZ, <<0, 0, 2>>, <<0, 0, -1>>, <<1, 0, 0>>, <<0, -2, 0>>}

\* ----------------------------------------------------------- Normal Engine
\* A unit-or-zero vector dir / sqrt(len2): "safe" is 1 where the length is 0.
\* (Without "safe" the zero vector is divided by 0, which gives NaN.)
UnitVecUnsafe(v) == [dir |-> v, len2 |-> Norm2(v)]
UnitVec(v) == [dir |-> v, len2 |-> IF Norm2(v) = 0 THEN 1 ELSE Norm2(v)]
IsZeroVec(n) == n.dir = Zero3

FaceCorner(verts, fcs, f, k) == verts[PyIndex(fcs[f][k], Len0(verts))]

\* compute_face_normals: normals = cross / safe, areas = 0.5 * lengths.
\* The area is carried as lengths^2 (area = sqrt(len2) / 2).
compute_face_normals(verts, fcs) ==
    LET cross(f) == Cross3(Sub3(FaceCorner(verts, fcs, f, 2), FaceCorner(verts, fcs, f, 1)),
                           Sub3(FaceCorner(verts, fcs, f, 3), FaceCorner(verts, fcs, f, 1)))
    IN [normals |-> [f \in DOMAIN fcs |-> UnitVec(cross(f))],
        areas   |-> [f \in DOMAIN fcs |-> Norm2(cross(f))]]

\* face_normals[f] * face_areas[f] = (cross / |cross|) * (|cross| / 2): the
\* cross product in half units, and zero for a zero-area face.
WeightedNormal(nrm, area2) == IF area2 = 0 THEN Zero3 ELSE nrm.dir

\* compute_vertex_normals: each face adds normal * area to its three corners
\* (once per slot), then every row is divided by its length (or by 1).
RECURSIVE AccumulateNormals(_, _, _, _, _)
AccumulateNormals(fcs, nrms, areas, i, f) ==
    IF f >= Len0(fcs) THEN Zero3
    ELSE LET n == WeightedNormal(nrms[f], areas[f])
             hits == Cardinality({k \in 1..3 : PyIndex(fcs[f][k], i.n) = i.v})
             rest == AccumulateNormals(fcs, nrms, areas, i, f + 1)
         IN IF hits = 0 THEN rest
            ELSE IF hits = 1 THEN Add3(n, rest)
            ELSE IF hits = 2 THEN Add3(n, Add3(n, rest))
            ELSE Add3(n, Add3(n, Add3(n, rest)))
compute_vertex_normals(verts, fcs, face_normals, face_areas) ==
    [v \in DOMAIN verts |->
        UnitVec(AccumulateNormals(fcs, face_normals, face_areas,
                                  [v |-> v, n |-> Len0(verts)], 0))]

\* ------------------------------------------- Spatial Index, Thickness Estimator
Some(x) == <<x>>          \* a present optional value
IsFinite(t) == t < Infinity

\* tree.query(origin, k): the k vertices nearest to vertex i (all of them when
\* k = V); of two vertices at the same distance the lower index is listed first
KNearestAll(verts, i, k) == DOMAIN verts
KNearest(verts, i, k) ==
    LET d2(j) == Norm2(Sub3(verts[j], verts[i]))
        closer(j) == {a \in DOMAIN verts : d2(a) < d2(j) \/ (d2(a) = d2(j) /\ a < j)}
    IN {j \in DOMAIN verts : Cardinality(closer(j)) < k}

\* a projection dn / sqrt(len2) as a fixed-point length, floored to an even
\* number of hundredths (so that the mean of two of them is a whole number)
ToThickness(dn, len2) == 2 * ISqrt(((50 * dn) * (50 * dn)) \div len2)

\* "proj > 0" of "if proj > 0 and proj < local_min"
IsNotNegative(proj) == proj >= 0
IsPositive(proj) == proj > 0

\* the loop body of check_local_wall_thickness for vertex i
VertexThickness(verts, vertex_normals, i) ==
    LET n == vertex_normals[i]
        idx == KNearest(verts, i, Min2(K_NEIGH, Len0(verts)))
        projs == {Dot3(Sub3(verts[j], verts[i]), n.dir) : j \in idx \ {i}}
        positive == {pr \in projs : IsPositive(pr)}
    IN IF IsZeroVec(n) THEN Infinity
       ELSE IF positive = {} THEN Infinity
       ELSE ToThickness(SetMin(positive), n.len2)

MaxExtent(extents) == SetMax({extents[1], extents[2], extents[3]})
MinExtent(extents) == SetMin({extents[1], extents[2], extents[3]})
\* fallback = float(extents.min())
FallbackZero(extents) == 0
Fallback(extents) == MinExtent(extents)

\* thickness[mask].min()
FiniteMax(thickness, mask) == SetMax({thickness[i] : i \in mask})
FiniteMin(thickness, mask) == SetMin({thickness[i] : i \in mask})
\* mask & (thickness < min_thickness), for one vertex with a finite estimate
IsThinAbove(t, min_thickness) == t > min_thickness
IsThin(t, min_thickness) == t < min_thickness

\* the status of the bounding-box fallback
FallbackStatusInverted(fallback, min_thickness) ==
    IF fallback > min_thickness THEN "WARNING" ELSE "OK"
FallbackStatus(fallback, min_thickness) ==
    IF fallback < min_thickness THEN "WARNING" ELSE "OK"

check_local_wall_thickness(verts, fcs, vertex_normals, extents, min_thickness) ==
    LET thickness == [i \in DOMAIN verts |-> VertexThickness(verts, vertex_normals, i)]
        mask == {i \in DOMAIN verts : IsFinite(thickness[i])}
        min_local == FiniteMin(thickness, mask)
        num_thin == Cardinality({i \in mask : IsThin(thickness[i], min_thickness)})
        fallback == Fallback(extents)
    IN IF mask # {}
       THEN [status |-> IF num_thin > 0 THEN "WARNING" ELSE "OK",
             message |-> IF num_thin > 0
                         THEN <<"Minimum local thickness {} < required {}.", min_local, min_thickness>>
                         ELSE <<"Minimum local thickness {} >= required {}.", min_local, min_thickness>>,
             min_thickness |-> min_local,
             num_thin_vertices |-> num_thin,
             threshold |-> min_thickness,
             per_vertex_thickness |-> thickness]
       ELSE [status |-> FallbackStatus(fallback, min_thickness),
             message |-> IF fallback < min_thickness
                         THEN <<"Fallback local thickness {} < required {}.", fallback, min_thickness>>
                         ELSE <<"Fallback local thickness {} >= required {}.", fallback, min_thickness>>,
             min_thickness |-> fallback,
             num_thin_vertices |-> 0,
             threshold |-> min_thickness,
             per_vertex_thickness |-> thickness]

\* ---------------------------------------------------------- Rib/Boss Analyzer
\* k-th smallest (k from 0) of the values t[i], i in idx, counted with repeats
KthSmallest(t, idx, k) ==
    CHOOSE x \in {t[i] : i \in idx} :
        /\ Cardinality({i \in idx : t[i] < x}) <= k
        /\ k < Cardinality({i \in idx : t[i] <= x})
\* np.median: the middle value, or the mean of the two middle values
LeastValue(t, idx) == SetMin({t[i] : i \in idx})
Median(t, idx) ==
    LET n == Cardinality(idx)
    IN IF n % 2 = 1 THEN KthSmallest(t, idx, (n - 1) \div 2)
       ELSE (KthSmallest(t, idx, n \div 2 - 1) + KthSmallest(t, idx, n \div 2)) \div 2

\* the status returned when "not finite_mask.any()"
NoThicknessDataStatusOK(t) == "OK"
NoThicknessDataStatus(t) == "UNKNOWN"

\* finite_mask & (t > threshold), for one vertex with a finite thickness; the
\* threshold is in units of 1/10000
IsOverThickOrEqual(thickness, threshold) == 100 * thickness >= threshold
IsOverThick(thickness, threshold) == 100 * thickness > threshold

\* threshold = base_wall * factor is held exactly, in units of 1/10000
\* (hundredths of a length times hundredths of the factor)
check_rib_boss_thickness(t, base_wall_thickness, factor) ==
    LET finite_mask == {i \in DOMAIN t : IsFinite(t[i])}
        base_wall == IF base_wall_thickness = None THEN Median(t, finite_mask)
                     ELSE base_wall_thickness[1]
        threshold == base_wall * factor
        bad == {i \in finite_mask : IsOverThick(t[i], threshold)}
        num_bad == Cardinality(bad)
        max_thick == SetMax({t[i] : i \in finite_mask})
    IN IF finite_mask = {}
       THEN [status |-> NoThicknessDataStatus(t),
             message |-> <<"No valid local thickness data for rib/boss check.">>,
             base_wall_thickness |-> None,
             max_thickness |-> None,
             factor |-> Some(factor),
             threshold |-> None,
             num_over_thick_vertices |-> 0,
             bad_vertex_mask |-> [i \in DOMAIN t |-> FALSE]]
       ELSE [status |-> IF num_bad > 0 THEN "WARNING" ELSE "OK",
             message |-> IF num_bad > 0
                         THEN <<"Rib/Boss thickness: {} vertices exceed {} x nominal wall thickness (nominal ~{}, max ~{}).",
                                num_bad, factor, base_wall, max_thick>>
                         ELSE <<"Rib/Boss thickness OK: no regions above {} x nominal wall thickness (nominal ~{}, max ~{}).",
                                factor, base_wall, max_thick>>,
             base_wall_thickness |-> Some(base_wall),
             max_thickness |-> Some(max_thick),
             factor |-> Some(factor),
             threshold |-> Some(threshold),
             num_over_thick_vertices |-> num_bad,
             bad_vertex_mask |-> [i \in DOMAIN t |-> i \in bad]]

\* ------------------------------------------------------------------ angles
\* cos(t) for the threshold angles t (degrees) that are used
CosDeg(deg) ==
    CASE deg = 0   -> Surd(1, 1)
      [] deg = 45  -> Surd(1, 2)
      [] deg = 60  -> Surd(1, 4)
      [] deg = 90  -> Surd(0, 1)
      [] deg = 120 -> Surd(-1, 4)
      [] deg = 135 -> Surd(-1, 2)
      [] deg = 180 -> Surd(-1, 1)
\* sin(t); sin(2 deg) = 0.0349 is taken as 7/200, which separates the same
\* cosines as long as the squared length of a normal stays below 800
SinDeg(deg) ==
    CASE deg = 0  -> Surd(0, 1)
      [] deg = 2  -> Surd(7, 40000)
      [] deg = 30 -> Surd(1, 4)
      [] deg = 45 -> Surd(1, 2)
      [] deg = 90 -> Surd(1, 1)
\* np.degrees(np.arccos(c)) > deg, for the angle whose cosine is c
AngleExceeds(c, deg) == SurdLess(c, CosDeg(deg))
\* the angle 0.0, as its cosine
AngleZero == Surd(1, 1)
\* the largest angle of a set of angles (the least cosine)
AngleMin(S) == CHOOSE x \in S : \A y \in S : SurdLeq(y, x)
AngleMax(S) == SurdMin(S)

\* --------------------------------------- Edge Adjacency Builder, Corner Detector
\* tuple(sorted((a, b))) for the three edges (i0,i1), (i1,i2), (i2,i0) of a face
EdgeKey(face, slot) ==
    LET a == face[slot]
        b == face[(slot % 3) + 1]
    IN IF a <= b THEN <<a, b>> ELSE <<b, a>>
\* the face index once per edge slot of faces f, f+1, ... that maps to e
RECURSIVE EdgeFacesFrom(_, _, _)
EdgeFacesFrom(fcs, e, f) ==
    IF f >= Len0(fcs) THEN <<>>
    ELSE LET hits == Cardinality({slot \in 1..3 : EdgeKey(fcs[f], slot) = e})
         IN [k \in 1..hits |-> f] \o EdgeFacesFrom(fcs, e, f + 1)
\* (an edge_to_faces dict that outlives the call: an earlier call has
\* already appended its faces)
EdgeFacesPersistent(fcs, e) ==
    IF Calls = 0 THEN EdgeFacesFrom(fcs, e, 0)
    ELSE EdgeFacesFrom(fcs, e, 0) \o EdgeFacesFrom(fcs, e, 0)
\* edge_to_faces[e], built by a dict that is new in every call
EdgeFaces(fcs, e) == EdgeFacesFrom(fcs, e, 0)
EdgeKeys(fcs) == {EdgeKey(fcs[f], slot) : f \in DOMAIN fcs, slot \in 1..3}
\* the edges the dihedral loop does not skip
InteriorEdges(fcs) == {e \in EdgeKeys(fcs) : Len(EdgeFaces(fcs, e)) = 2}
\* cosine of the angle between the normals of the two entries of f_list
EdgeAngle(fcs, face_normals, e) ==
    LET f_list == EdgeFaces(fcs, e)
        n1 == face_normals[f_list[1]]
        n2 == face_normals[f_list[2]]
    IN Surd(Dot3(n1.dir, n2.dir), n1.len2 * n2.len2)

check_sharp_corners(fcs, face_normals, num_vertices, angle_threshold_deg) ==
    LET sharp_edges == {e \in InteriorEdges(fcs) :
                          AngleExceeds(EdgeAngle(fcs, face_normals, e), angle_threshold_deg)}
        num_sharp == Cardinality(sharp_edges)
        max_angle == IF sharp_edges = {} THEN AngleZero
                     ELSE AngleMax({EdgeAngle(fcs, face_normals, e) : e \in sharp_edges})
    IN [status |-> IF num_sharp > 0 THEN "WARNING" ELSE "OK",
        message |-> IF num_sharp > 0
                    THEN <<"{} sharp edges exceed {}. Max corner angle = {}.",
                           num_sharp, angle_threshold_deg, max_angle>>
                    ELSE <<"No edges exceed {}. Corner sharpness appears acceptable.",
                           angle_threshold_deg>>,
        num_sharp_edges |-> num_sharp,
        angle_threshold_deg |-> angle_threshold_deg,
        max_sharp_angle_deg |-> max_angle,
        corner_vertex_mask |->
            [v \in 0..(num_vertices - 1) |->
                \E e \in sharp_edges : PyIndex(e[1], num_vertices) = v
                                       \/ PyIndex(e[2], num_vertices) = v]]

\* ------------------------------------------------------------ pull direction
Norm3(v) == ISqrt(Norm2(v))
Div3(v, n) == <<v[1] \div n, v[2] \div n, v[3] \div n>>
\* None and the zero vector become +Z, anything else is divided by its length
UnitPullUnscaled(pull) ==
    IF pull = None THEN PlusZ
    ELSE IF Norm3(pull) = 0 THEN PlusZ
    ELSE pull
UnitPull(pull) ==
    IF pull = None THEN PlusZ
    ELSE IF Norm3(pull) = 0 THEN PlusZ
    ELSE Div3(pull, Norm3(pull))
\* vertices of the faces of a mask
FaceMaskOfBadFaces(fcs, num_vertices, bad_faces) == [f \in DOMAIN fcs |-> f \in bad_faces]
FaceVertexMask(fcs, num_vertices, bad_faces) ==
    [v \in 0..(num_vertices - 1) |->
        \E f \in bad_faces : \E k \in 1..3 : PyIndex(fcs[f][k], num_vertices) = v]
\* dot(normal, pull_dir) for a unit pull_dir: the cosine of the face angle
FaceDot(n, pull_dir) == Surd(Dot3(n.dir, pull_dir), n.len2)

\* ------------------------------------------------------------- Draft Analyzer
\* A draft angle |90 - angle| lies in [0, 90] and is represented by its sine,
\* which is |cos(angle)|.
\* bad_face_mask = draft_angles < min_draft_angle_deg, for one face
IsBadDraftAbove(draft, min_draft_angle_deg) == SurdLess(SinDeg(min_draft_angle_deg), draft)
IsBadDraft(draft, min_draft_angle_deg) == SurdLess(draft, SinDeg(min_draft_angle_deg))

check_draft_angle(fcs, face_normals, num_vertices, pull, min_draft_angle_deg) ==
    LET pull_dir == UnitPull(pull)          \* np.array: a copy
        draft_angles == [f \in DOMAIN fcs |-> SurdAbs(FaceDot(face_normals[f], pull_dir))]
        bad_faces == {f \in DOMAIN fcs : IsBadDraft(draft_angles[f], min_draft_angle_deg)}
        num_bad_faces == Cardinality(bad_faces)
        min_draft_angle == IF DOMAIN fcs = {} THEN SurdZero
                           ELSE SurdMin({draft_angles[f] : f \in DOMAIN fcs})
    IN [status |-> IF num_bad_faces > 0 THEN "WARNING" ELSE "OK",
        message |-> IF num_bad_faces > 0
                    THEN <<"{} faces have draft angle < {}. Minimum found = {}.",
                           num_bad_faces, min_draft_angle_deg, min_draft_angle>>
                    ELSE <<"All faces meet the minimum draft angle of {}.", min_draft_angle_deg>>,
        min_draft_angle |-> min_draft_angle,
        num_bad_faces |-> num_bad_faces,
        angle_threshold_deg |-> min_draft_angle_deg,
        per_face_draft_angle |-> draft_angles,
        bad_face_mask |-> [f \in DOMAIN fcs |-> f \in bad_faces],
        bad_vertex_mask |-> FaceVertexMask(fcs, num_vertices, bad_faces)]

\* ----------------------------------------------------------- Undercut Detector
\* np.cos(np.deg2rad(deg)) in double precision: the exact cosine, or the next
\* float above it (cos(deg2rad(90.0)) is 6.1e-17, not 0)
CosThreshold(deg) ==
    [val |-> CosDeg(deg), above |-> deg \in {45, 60, 90, 120, 135}]
\* dots < cos_threshold
DotBelow(c, thr) == SurdLess(c, thr.val) \/ (thr.above /\ c = thr.val)

\* what "pull_dir /= norm" leaves in the caller's array: np.asarray does not
\* copy a float array, so the division is done in the caller's array, unless
\* the zero vector made pull_dir a new array first
PullAfterUndercut(pull) ==
    IF pull = None THEN None
    ELSE IF Norm3(pull) = 0 THEN pull
    ELSE Div3(pull, Norm3(pull))

check_undercuts(fcs, face_normals, num_vertices, pull, angle_threshold_deg) ==
    LET pull_dir == UnitPull(pull)
        cos_threshold == CosThreshold(angle_threshold_deg)
        dots == [f \in DOMAIN fcs |-> FaceDot(face_normals[f], pull_dir)]
        bad_faces == {f \in DOMAIN fcs : DotBelow(dots[f], cos_threshold)}
        num_bad_faces == Cardinality(bad_faces)
        max_angle == IF num_bad_faces > 0
                     THEN Some(AngleMax({dots[f] : f \in bad_faces}))
                     ELSE None
    IN [status |-> IF num_bad_faces > 0 THEN "WARNING" ELSE "OK",
        message |-> IF num_bad_faces > 0
                    THEN <<"Undercut / back-draft faces detected: {} faces with angle > {} to pull direction (max ~{}).",
                           num_bad_faces, angle_threshold_deg, max_angle>>
                    ELSE <<"No undercut faces detected above {} relative to pull direction.",
                           angle_threshold_deg>>,
        num_undercut_faces |-> num_bad_faces,
        angle_threshold_deg |-> angle_threshold_deg,
        max_undercut_angle_deg |-> max_angle,
        bad_face_mask |-> [f \in DOMAIN fcs |-> f \in bad_faces],
        bad_vertex_mask |-> FaceVertexMask(fcs, num_vertices, bad_faces)]

\* ------------------------------------------------------- Pipeline Orchestrator
Axis(verts, k) == {verts[i][k] : i \in DOMAIN verts}
\* vertices.min(axis=0), vertices.max(axis=0) and their difference, in fixed point
MinBounds(verts) == [k \in 1..3 |-> ToFixed(SetMin(Axis(verts, k)))]
MaxBounds(verts) == [k \in 1..3 |-> ToFixed(SetMax(Axis(verts, k)))]
Extents(verts) == [k \in 1..3 |-> MaxBounds(verts)[k] - MinBounds(verts)[k]]

\* The exception that leaves run_all_checks before results["checks"] exists:
\* vertices.min(axis=0) of an empty array is a ValueError, and
\* vertices[faces[:, k]] with an index outside [-V, V) is an IndexError.
RunAllChecksError(verts, fcs) ==
    IF Len0(verts) = 0 THEN "ValueError"
    ELSE IF \E f \in DOMAIN fcs : \E k \in 1..3 : ~InRange(fcs[f][k], Len0(verts))
    THEN "IndexError"
    ELSE "no error"

GlobalStatusFail(smallest_dim, min_global_thickness) ==
    IF smallest_dim < min_global_thickness THEN "FAIL" ELSE "OK"
GlobalStatus(smallest_dim, min_global_thickness) ==
    IF smallest_dim < min_global_thickness THEN "WARNING" ELSE "OK"
GlobalThickness(extents, min_global_thickness) ==
    LET smallest_dim == MinExtent(extents)
    IN [status |-> GlobalStatus(smallest_dim, min_global_thickness),
        message |-> IF smallest_dim < min_global_thickness
                    THEN <<"Global thin-part issue: smallest dimension {} < min {}.",
                           smallest_dim, min_global_thickness>>
                    ELSE <<"Global thickness OK: smallest dimension {} >= min {}.",
                           smallest_dim, min_global_thickness>>,
        smallest_dimension |-> smallest_dim,
        min_allowed |-> min_global_thickness]

\* (a pipeline that stops at the first check that is not OK)
RunChecksUntilWarning(verts, fcs, min_global_thickness, min_local_thickness, pull) ==
    LET fn == compute_face_normals(verts, fcs)
        face_normals == fn.normals
        vertex_normals == compute_vertex_normals(verts, fcs, face_normals, fn.areas)
        extents == Extents(verts)
        local_result == check_local_wall_thickness(verts, fcs, vertex_normals, extents,
                                                   min_local_thickness)
        order == <<"global_thickness", "local_thickness", "rib_boss", "sharp_corners",
                   "draft_angle", "undercuts">>
        all == [global_thickness |-> GlobalThickness(extents, min_global_thickness),
                local_thickness |-> local_result,
                rib_boss |-> check_rib_boss_thickness(local_result.per_vertex_thickness, None,
                                                      DEFAULT_RIB_BOSS_FACTOR),
                sharp_corners |-> check_sharp_corners(fcs, face_normals, Len0(verts),
                                                      SHARP_ANGLE_THRESHOLD_DEG),
                draft_angle |-> check_draft_angle(fcs, face_normals, Len0(verts), pull,
                                                  DRAFT_MIN_ANGLE_DEG),
                undercuts |-> check_undercuts(fcs, face_normals, Len0(verts), pull,
                                              DEFAULT_UNDERCUT_ANGLE_DEG)]
        ran == {order[k] : k \in {j \in 1..6 : \A i \in 1..(j - 1) : all[order[i]].status = "OK"}}
    IN [name \in ran |-> all[name]]

\* The six checks in the order the code runs them.  The sharp-corner, draft,
\* undercut and rib/boss checks are called without a threshold argument, so
\* each runs with the default of its module.
RunChecks(verts, fcs, min_global_thickness, min_local_thickness, pull) ==
    LET fn == compute_face_normals(verts, fcs)
        face_normals == fn.normals
        vertex_normals == compute_vertex_normals(verts, fcs, face_normals, fn.areas)
        extents == Extents(verts)
        local_result == check_local_wall_thickness(verts, fcs, vertex_normals, extents,
                                                   min_local_thickness)
    IN [global_thickness |-> GlobalThickness(extents, min_global_thickness),
        local_thickness |-> local_result,
        rib_boss |-> check_rib_boss_thickness(local_result.per_vertex_thickness, None,
                                              DEFAULT_RIB_BOSS_FACTOR),
        sharp_corners |-> check_sharp_corners(fcs, face_normals, Len0(verts),
                                              SHARP_ANGLE_THRESHOLD_DEG),
        draft_angle |-> check_draft_angle(fcs, face_normals, Len0(verts), pull,
                                          DRAFT_MIN_ANGLE_DEG),
        undercuts |-> check_undercuts(fcs, face_normals, Len0(verts), pull,
                                      DEFAULT_UNDERCUT_ANGLE_DEG)]

\* result.get("status", "UNKNOWN")
StatusOf(checks, name) ==
    IF name \in DOMAIN checks THEN checks[name].status ELSE "UNKNOWN"

run_all_checks(verts, fcs, min_global_thickness, min_local_thickness, pull) ==
    Only({[triangles |-> Len0(fcs),
           bbox |-> [min |-> MinBounds(verts), max |-> MaxBounds(verts),
                     extents |-> Extents(verts)],
           normals_info |-> [num_faces |-> Len0(fcs), num_vertices |-> Len0(verts)],
           checks |-> checks,
           summary |-> <<StatusOf(checks, "global_thickness"), StatusOf(checks, "local_thickness"),
                         StatusOf(checks, "sharp_corners"), StatusOf(checks, "draft_angle"),
                         StatusOf(checks, "undercuts"), StatusOf(checks, "rib_boss")>>] :
            checks \in {RunChecks(verts, fcs, min_global_thickness, min_local_thickness,
                                  pull)}})

\* ------------------------------------------------------------------ the loader
\* core/loader.py.  A path names nothing, a directory, or a regular file whose
\* content trimesh reads as a mesh, reads as an empty mesh, or cannot read.
PathNames == {"part.stl", "nonexistent.stl", "models", "notes.txt"}
NoPath == ""                       \* load_mesh is not called
FileKinds == {"absent", "directory", "mesh file", "empty mesh file", "other file"}
LoaderIdle ==
    /\ files = [n \in PathNames |-> "absent"]
    /\ path = NoPath
    /\ load_outcome = "none"
    /\ loader_calls = <<>>

\* Path(path).is_file()
Exists(kind) == kind # "absent"
IsFile(kind) == kind \notin {"absent", "directory"}

\* if not p.is_file(): raise FileNotFoundError
LoadMeshNotFound ==
    /\ path \in PathNames /\ load_outcome = "none"
    /\ ~IsFile(files[path])
    /\ load_outcome' = "FileNotFoundError"
    /\ UNCHANGED <<files, path, loader_calls>>
    /\ UNCHANGED pipeline_vars
    /\ UNCHANGED ui_vars
\* trimesh.load_mesh(str(p)) raises: the exception leaves load_mesh
LoadMeshUnreadable ==
    /\ path \in PathNames /\ load_outcome = "none"
    /\ IsFile(files[path])
    /\ files[path] \notin {"mesh file", "empty mesh file"}
    /\ loader_calls' = <<"trimesh.load_mesh">>
    /\ load_outcome' = "error of trimesh.load_mesh"
    /\ UNCHANGED <<files, path>>
    /\ UNCHANGED pipeline_vars
    /\ UNCHANGED ui_vars
\* if tri_mesh.is_empty: raise ValueError
LoadMeshEmpty ==
    /\ path \in PathNames /\ load_outcome = "none"
    /\ IsFile(files[path])
    /\ files[path] = "empty mesh file"
    /\ loader_calls' = <<"trimesh.load_mesh">>
    /\ load_outcome' = "ValueError"
    /\ UNCHANGED <<files, path>>
    /\ UNCHANGED pipeline_vars
    /\ UNCHANGED ui_vars
\* return tri_mesh, pv_mesh
LoadMeshReturns ==
    /\ path \in PathNames /\ load_outcome = "none"
    /\ IsFile(files[path])
    /\ files[path] = "mesh file"
    /\ loader_calls' = <<"trimesh.load_mesh", "pv.wrap">>
    /\ load_outcome' = "returned"
    /\ UNCHANGED <<files, path>>
    /\ UNCHANGED pipeline_vars
    /\ UNCHANGED ui_vars

\* ui/main_window.py, MainWindow.__init__: the window before the first event
InitialWindow ==
    [last_dfm_results |-> None,
     last_file_path |-> None,
     active_visual_check |-> None,
     mesh_item |-> None,
     spin_global |-> MIN_GLOBAL_THICKNESS,
     spin_local |-> LOCAL_MIN_THICKNESS,
     combo_pull |-> "+Z"]
UiIdle ==
    /\ window = InitialWindow
    /\ popups = <<>>
    /\ written = {}
    /\ event = "none"

\* ----------------------------------------------------------------- the caller

CheckNames == {"global_thickness", "local_thickness", "rib_boss", "sharp_corners",
               "draft_angle", "undercuts"}
Statuses == {"OK", "WARNING", "UNKNOWN"}
NoResults == [checks |-> <<>>]

DefaultConfig ==
    [min_global_thickness |-> MIN_GLOBAL_THICKNESS,
     min_local_thickness |-> LOCAL_MIN_THICKNESS,
     sharp_angle_threshold_deg |-> SHARP_ANGLE_THRESHOLD_DEG,
     min_draft_angle_deg |-> DRAFT_MIN_ANGLE_DEG,
     undercut_angle_threshold_deg |-> DEFAULT_UNDERCUT_ANGLE_DEG,
     rib_boss_factor |-> DEFAULT_RIB_BOSS_FACTOR]
ConfigSpace ==
    [min_global_thickness : {MIN_GLOBAL_THICKNESS, 100},
     min_local_thickness : {LOCAL_MIN_THICKNESS, 120},
     sharp_angle_threshold_deg : {SHARP_ANGLE_THRESHOLD_DEG, 90},
     min_draft_angle_deg : {DRAFT_MIN_ANGLE_DEG, 45},
     undercut_angle_threshold_deg : {DEFAULT_UNDERCUT_ANGLE_DEG, 120},
     rib_boss_factor : {DEFAULT_RIB_BOSS_FACTOR, 200}]
Overrides(c, pull) ==
    Cardinality({k \in DOMAIN c : c[k] # DefaultConfig[k]})
      + (IF pull = None THEN 0 ELSE 1)

Init ==
    /\ \/ /\ vertices \in VertexArrays
          /\ faces \in FaceArrays(Len0(vertices))
       \/ \E m \in ScenarioMeshes : vertices = m.vertices /\ faces = m.faces
    /\ pull_direction \in PullDirections
    /\ config \in ConfigSpace
    /\ Overrides(config, pull_direction) <= MaxOverrides
    /\ outcome = "none"
    /\ results = NoResults
    /\ history = <<>>
    /\ LoaderIdle
    /\ UiIdle

\* run_all_checks(vertices, faces, min_global_thickness=..., min_local_thickness=...,
\* pull_direction=...) returns its report
RunAllChecksReturns ==
    /\ Calls < MaxCalls
    /\ RunAllChecksError(vertices, faces) = "no error"
    /\ results' = run_all_checks(vertices, faces, config.min_global_thickness,
                                 config.min_local_thickness, pull_direction)
    /\ pull_direction' = PullAfterUndercut(pull_direction)
    /\ outcome' = "returned"
    /\ history' = Append(history, [pull_direction |-> pull_direction,
                                   outcome |-> outcome', results |-> results'])
    /\ UNCHANGED <<vertices, faces, config>>
    /\ UNCHANGED loader_vars
    /\ UNCHANGED ui_vars

\* the same call leaves by an exception, before any check has run
RunAllChecksRaises ==
    /\ Calls < MaxCalls
    /\ RunAllChecksError(vertices, faces) # "no error"
    /\ outcome' = RunAllChecksError(vertices, faces)
    /\ results' = NoResults
    /\ history' = Append(history, [pull_direction |-> pull_direction,
                                   outcome |-> outcome', results |-> results'])
    /\ UNCHANGED <<vertices, faces, pull_direction, config>>
    /\ UNCHANGED loader_vars
    /\ UNCHANGED ui_vars

Next == RunAllChecksReturns \/ RunAllChecksRaises

Spec == Init /\ [][Next]_vars

\* load_mesh called once with any path on any file system
LoaderInit ==
    /\ files \in [PathNames -> FileKinds]
    /\ path \in PathNames
    /\ load_outcome = "none"
    /\ loader_calls = <<>>
    /\ vertices = EmptyArray /\ faces = EmptyArray
    /\ pull_direction = None
    /\ config = DefaultConfig
    /\ outcome = "none"
    /\ results = NoResults
    /\ history = <<>>
    /\ UiIdle
LoaderNext == LoadMeshNotFound \/ LoadMeshUnreadable \/ LoadMeshEmpty \/ LoadMeshReturns
LoaderSpec == LoaderInit /\ [][LoaderNext]_vars

\* -------------------------------------------------------------- the main window
\* ui/main_window.py.  The STL files the user can pick in the file dialog:
\* each holds a list of triangles, or cannot be read.
StlFiles == {"wedge.stl", "tetra.stl", "empty.stl", "broken.stl"}
Cancelled == ""                    \* the path of a cancelled file dialog
Unreadable == <<"unreadable">>     \* mesh.Mesh.from_file raises
StlContent(file_path) ==
    CASE file_path = "wedge.stl" ->
            <<<<(<<0, 0, 0>>), (<<1, 0, 0>>), (<<0, 1, 0>>)>>,
              <<(<<0, 0, 2>>), (<<0, 1, 0>>), (<<1, 0, 0>>)>>>>
      [] file_path = "tetra.stl" ->
            <<<<(<<0, 0, 0>>), (<<0, 1, 0>>), (<<1, 0, 0>>)>>,
              <<(<<0, 0, 0>>), (<<1, 0, 0>>), (<<0, 0, 2>>)>>,
              <<(<<0, 0, 0>>), (<<0, 0, 2>>), (<<0, 1, 0>>)>>,
              <<(<<1, 0, 0>>), (<<0, 1, 0>>), (<<0, 0, 2>>)>>>>
      [] file_path = "empty.stl" -> <<>>
      [] file_path = "broken.stl" -> Unreadable

\* core/stl_loader.py: np.unique(vertices_raw, axis=0, return_inverse=True)
\* lists the distinct corner points in lexicographic order, and a face is the
\* three positions of its corners in that list
LexLess(u, v) ==
    \/ u[1] < v[1]
    \/ u[1] = v[1] /\ u[2] < v[2]
    \/ u[1] = v[1] /\ u[2] = v[2] /\ u[3] < v[3]
load_stl(vectors) ==
    LET vertices_raw == {vectors[t][k] : t \in DOMAIN vectors, k \in 1..3}
        unique_index(pt) == Cardinality({q \in vertices_raw : LexLess(q, pt)})
    IN [vertices |-> [i \in 0..(Cardinality(vertices_raw) - 1) |->
                         CHOOSE pt \in vertices_raw : unique_index(pt) = i],
        faces |-> [t \in 0..(Len(vectors) - 1) |->
                      <<unique_index(vectors[t + 1][1]), unique_index(vectors[t + 1][2]),
                        unique_index(vectors[t + 1][3])>>]]

\* the controls: values of the two spin boxes and texts of the pull-direction box
SpinGlobalValues == {MIN_GLOBAL_THICKNESS, 150}
SpinLocalValues == {LOCAL_MIN_THICKNESS, 120}
PullTexts == {"+Z", "-Z", "+X", "-X", "+Y", "-Y"}
get_pull_direction_vector(text) ==
    CASE text = "+X" -> <<1, 0, 0>>
      [] text = "-X" -> <<-1, 0, 0>>
      [] text = "+Y" -> <<0, 1, 0>>
      [] text = "-Y" -> <<0, -1, 0>>
      [] text = "-Z" -> <<0, 0, -1>>
      [] OTHER -> <<0, 0, 1>>

\* A handler is an operator on the record u of what it reads and changes: the
\* window, the message boxes shown so far in this event, and the files written.
Show(u, box) == [u EXCEPT !.popups = Append(@, box)]

\* the mask that load_and_display_stl colours red for active_check
DefectMask(checks, num_vertices, active_check) ==
    LET all == 0..(num_vertices - 1)
        t == checks.local_thickness.per_vertex_thickness
    IN CASE active_check = Some("local_thickness") ->
               {i \in all : IsFinite(t[i]) /\ t[i] < checks.local_thickness.threshold}
         [] active_check = Some("sharp_corners") ->
               {i \in all : checks.sharp_corners.corner_vertex_mask[i]}
         [] active_check = Some("draft_angle") ->
               {i \in all : checks.draft_angle.bad_vertex_mask[i]}
         [] active_check = Some("undercuts") ->
               {i \in all : checks.undercuts.bad_vertex_mask[i]}
         [] active_check = Some("rib_boss") ->
               {i \in all : checks.rib_boss.bad_vertex_mask[i]}
         [] OTHER -> {}

\* _maybe_warn: the popup of check_key is shown
MaybeWarn(active_check, check_key) ==
    active_check # None /\ active_check = Some(check_key)
\* the order of the six "if ... status == WARNING: _maybe_warn(...)" statements
WarningOrder == <<"global_thickness", "local_thickness", "sharp_corners", "draft_angle",
                  "undercuts", "rib_boss">>
RECURSIVE Warnings(_, _, _)
Warnings(checks, active_check, k) ==
    IF k > Len(WarningOrder) THEN <<>>
    ELSE (IF checks[WarningOrder[k]].status = "WARNING" /\ MaybeWarn(active_check, WarningOrder[k])
          THEN <<[box |-> "warning", check |-> WarningOrder[k]]>>
          ELSE <<>>) \o Warnings(checks, active_check, k + 1)

\* self.last_dfm_results = dfm_results; self.last_file_path = file_path
StoreResultsOnly(w, dfm_results, file_path) ==
    [w EXCEPT !.last_dfm_results = Some(dfm_results)]
Store(w, dfm_results, file_path) ==
    [w EXCEPT !.last_dfm_results = Some(dfm_results), !.last_file_path = Some(file_path)]

\* the exception, if any, that leaves the try block before the results are stored
LoadError(file_path) ==
    IF StlContent(file_path) = Unreadable THEN "error of load_stl"
    ELSE Only({IF Len0(loaded.vertices) = 0 \/ Len0(loaded.faces) = 0 THEN "ValueError"
               ELSE RunAllChecksError(loaded.vertices, loaded.faces) :
                  loaded \in {load_stl(StlContent(file_path))}})

\* the rest of the try block, once run_all_checks has returned dfm_results:
\* store, colour the mesh for active_check, replace the mesh item, warn
Display(u, file_path, active_check, num_vertices, dfm_results) ==
    LET bad_mask == DefectMask(dfm_results.checks, num_vertices, active_check)
        stored == Store(u.window, dfm_results, file_path)
        drawn == [stored EXCEPT !.mesh_item = Some([file_path |-> file_path,
                                                    active_check |-> active_check,
                                                    red |-> bad_mask])]
    IN [u EXCEPT !.window = drawn,
                 !.popups = @ \o Warnings(dfm_results.checks, active_check, 1)]

\* run_all_checks is a function of the arrays and the three controls: its
\* report for every file that load_stl reads and every value of the controls
\* (a .checks of None for a file on which the call raises or is not made)
Analyses ==
    {[file_path |-> file_path, spin_global |-> g, spin_local |-> l, combo_pull |-> text,
      dfm_results |->
          IF LoadError(file_path) # "no error" THEN NoResults
          ELSE Only({run_all_checks(loaded.vertices, loaded.faces, g, l,
                                    get_pull_direction_vector(text)) :
                        loaded \in {load_stl(StlContent(file_path))}})] :
        file_path \in StlFiles, g \in SpinGlobalValues, l \in SpinLocalValues,
        text \in PullTexts}
\* the try block from run_all_checks on, for the arrays that load_stl returned
Analyse(u, file_path, active_check, loaded) ==
    Only({Display(u, file_path, active_check, Len0(loaded.vertices), a.dfm_results) :
            a \in {a \in Analyses : /\ a.file_path = file_path
                                    /\ a.spin_global = u.window.spin_global
                                    /\ a.spin_local = u.window.spin_local
                                    /\ a.combo_pull = u.window.combo_pull}})

load_and_display_stl(u, file_path, active_check) ==
    IF LoadError(file_path) # "no error"
    THEN Show(u, [box |-> "critical", check |-> "Error Loading STL"])
    ELSE Only({Analyse(u, file_path, active_check, loaded) :
                 loaded \in {load_stl(StlContent(file_path))}})

\* the check that a feature tab highlights
ActiveCheckOf(feature_id) ==
    CASE feature_id = "thickness" -> Some("local_thickness")
      [] feature_id = "sharp" -> Some("sharp_corners")
      [] feature_id = "draft" -> Some("draft_angle")
      [] feature_id = "undercuts" -> Some("undercuts")
      [] feature_id = "rib_boss" -> Some("rib_boss")
      [] OTHER -> None
on_feature_tab_clicked(u, feature_id) ==
    Only({IF u1.window.last_file_path # None /\ feature_id # "export"
          THEN load_and_display_stl(u1, u1.window.last_file_path[1],
                                    u1.window.active_visual_check)
          ELSE u1 :
             u1 \in {[u EXCEPT !.window.active_visual_check = ActiveCheckOf(feature_id)]}})

\* file_path is what QFileDialog.getOpenFileName returned
open_stl_dialog(u, file_path) ==
    IF file_path = Cancelled THEN u
    ELSE Only({load_and_display_stl(u1, file_path, u1.window.active_visual_check) :
                 u1 \in {[u EXCEPT !.window.active_visual_check = None]}})

on_threshold_changed(u) ==
    IF u.window.last_file_path = None THEN u
    ELSE load_and_display_stl(u, u.window.last_file_path[1], u.window.active_visual_check)

\* save_path is what QFileDialog.getSaveFileName returned
SavePaths == {Cancelled, "report.txt"}
export_dfm_report(u, save_path) ==
    IF u.window.last_dfm_results = None
    THEN Show(u, [box |-> "information", check |-> "No Analysis"])
    ELSE IF save_path = Cancelled THEN u
    ELSE Show([u EXCEPT !.written = @ \cup {"report_screenshot.png", save_path}],
              [box |-> "information", check |-> "Report Saved"])

\* what an event starts from, and what it leaves
Before == [window |-> window, popups |-> <<>>, written |-> written]
Leaves(after, name) ==
    /\ \E u \in {after} :
          /\ window' = u.window
          /\ popups' = u.popups
          /\ written' = u.written
    /\ event' = name
    /\ UNCHANGED pipeline_vars
    /\ UNCHANGED loader_vars

FeatureTabs == {"home", "thickness", "sharp", "draft", "undercuts", "rib_boss"}
\* a feature button other than Open and Export is clicked
ClickFeatureTab ==
    \E feature_id \in FeatureTabs : \E u \in {Before} :
        Leaves(on_feature_tab_clicked(u, feature_id), "on_feature_tab_clicked")
\* the Open button is clicked: its two slots run in the order they were connected
ClickOpenTab ==
    \E file_path \in StlFiles \cup {Cancelled} : \E u \in {Before} :
        \E u1 \in {on_feature_tab_clicked(u, "open")} :
            Leaves(open_stl_dialog(u1, file_path),
                   IF file_path = Cancelled THEN "open_stl_dialog cancelled"
                   ELSE "open_stl_dialog")
\* File > Open STL...
MenuOpen ==
    \E file_path \in StlFiles \cup {Cancelled} : \E u \in {Before} :
        Leaves(open_stl_dialog(u, file_path),
               IF file_path = Cancelled THEN "open_stl_dialog cancelled" ELSE "open_stl_dialog")
\* the Export button is clicked: on_feature_tab_clicked("export"), then export_dfm_report
ClickExportTab ==
    \E save_path \in SavePaths : \E u \in {Before} :
        \E u1 \in {on_feature_tab_clicked(u, "export")} :
            Leaves(export_dfm_report(u1, save_path), "export_dfm_report")
\* File > Export DFM Report...
MenuExport ==
    \E save_path \in SavePaths : \E u \in {Before} :
        Leaves(export_dfm_report(u, save_path), "export_dfm_report")
\* a spin box or the pull-direction box is given another value
ChangeSpinGlobal ==
    \E value \in SpinGlobalValues \ {window.spin_global} :
        \E u \in {[Before EXCEPT !.window.spin_global = value]} :
            Leaves(on_threshold_changed(u), "on_threshold_changed")
ChangeSpinLocal ==
    \E value \in SpinLocalValues \ {window.spin_local} :
        \E u \in {[Before EXCEPT !.window.spin_local = value]} :
            Leaves(on_threshold_changed(u), "on_threshold_changed")
ChangePullDirection ==
    \E text \in PullTexts \ {window.combo_pull} :
        \E u \in {[Before EXCEPT !.window.combo_pull = text]} :
            Leaves(on_threshold_changed(u), "on_threshold_changed")

UiInit ==
    /\ UiIdle
    /\ LoaderIdle
    /\ vertices = EmptyArray /\ faces = EmptyArray
    /\ pull_direction = None
    /\ config = DefaultConfig
    /\ outcome = "none"
    /\ results = NoResults
    /\ history = <<>>
UiNext ==
    \/ ClickFeatureTab \/ ClickOpenTab \/ MenuOpen \/ ClickExportTab \/ MenuExport
    \/ ChangeSpinGlobal \/ ChangeSpinLocal \/ ChangePullDirection
UiSpec == UiInit /\ [][UiNext]_vars

\* ------------------------------------------------------------------ properties
\* what the spec calls a structurally valid mesh: vertices and faces are not
\* empty and every face index lies in [0, V)
StructurallyValid(verts, fcs) ==
    /\ Len0(verts) > 0
    /\ Len0(fcs) > 0
    /\ \A f \in DOMAIN fcs : \A k \in 1..3 : fcs[f][k] \in 0..(Len0(verts) - 1)
Returned == outcome = "returned"
Checks == results.checks
FaceAreas == compute_face_normals(vertices, faces).areas
ZeroAreaFaces == {f \in DOMAIN faces : FaceAreas[f] = 0}
NoFiniteThickness ==
    \A i \in DOMAIN vertices : ~IsFinite(Checks.local_thickness.per_vertex_thickness[i])

\* C1: for every structurally valid mesh a call returns a report that holds a
\* result for each of the six checks, whatever the statuses of the other checks.
C1_AllSixChecksReported ==
    (Calls > 0 /\ StructurallyValid(vertices, faces))
        => (Returned /\ DOMAIN Checks = CheckNames)
\* a report in which the first check warns, the rib/boss check is UNKNOWN and a
\* later check still reports its own finding
C1_Witness ==
    /\ Returned /\ StructurallyValid(vertices, faces)
    /\ Checks.global_thickness.status = "WARNING"
    /\ Checks.rib_boss.status = "UNKNOWN"
    /\ Checks.sharp_corners.status = "OK"
    /\ Checks.undercuts.status = "WARNING"

\* C2: a call with an empty vertex array, an empty face array or a face index
\* outside [0, V) raises, and produces no report.
C2_InvalidGeometryRaises ==
    (Calls > 0 /\ ~StructurallyValid(vertices, faces))
        => (outcome \in {"ValueError", "IndexError"} /\ results = NoResults)

\* C3: a call leaves the caller's vertices, faces and pull_direction arrays as
\* they were.
C3_InputsNotMutated ==
    [][vertices' = vertices /\ faces' = faces /\ pull_direction' = pull_direction]_vars

\* C4: a zero-area face is never counted as a bad-draft face nor as an undercut
\* face, and the reported minimum draft angle is the minimum over the faces of
\* non-zero area.
C4_DegenerateFacesSkipped ==
    Returned =>
        /\ \A f \in ZeroAreaFaces :
              /\ ~Checks.draft_angle.bad_face_mask[f]
              /\ ~Checks.undercuts.bad_face_mask[f]
        /\ (DOMAIN faces) \ ZeroAreaFaces # {} =>
              Checks.draft_angle.min_draft_angle =
                 SurdMin({Checks.draft_angle.per_face_draft_angle[f] :
                             f \in (DOMAIN faces) \ ZeroAreaFaces})

\* C5: an interior edge with an incident zero-area face is not a sharp edge:
\* the sharp edges counted, and the vertices marked, are those of the interior
\* edges whose two faces both have a non-zero area.
ProperSharpEdges ==
    {e \in InteriorEdges(faces) :
        /\ \A k \in 1..2 : EdgeFaces(faces, e)[k] \notin ZeroAreaFaces
        /\ AngleExceeds(EdgeAngle(faces, compute_face_normals(vertices, faces).normals, e),
                        Checks.sharp_corners.angle_threshold_deg)}
C5_DegenerateEdgesSkipped ==
    Returned =>
        /\ Checks.sharp_corners.num_sharp_edges = Cardinality(ProperSharpEdges)
        /\ \A v \in DOMAIN vertices :
              Checks.sharp_corners.corner_vertex_mask[v] <=>
                 \E e \in ProperSharpEdges : PyIndex(e[1], Len0(vertices)) = v
                                             \/ PyIndex(e[2], Len0(vertices)) = v

\* C6: every check reports, as the threshold it used, the value the caller
\* configured, and the draft and undercut checks use the configured pull direction.
C6_OptionsThreaded ==
    Returned =>
        /\ Checks.global_thickness.min_allowed = config.min_global_thickness
        /\ Checks.local_thickness.threshold = config.min_local_thickness
        /\ Checks.sharp_corners.angle_threshold_deg = config.sharp_angle_threshold_deg
        /\ Checks.draft_angle.angle_threshold_deg = config.min_draft_angle_deg
        /\ Checks.undercuts.angle_threshold_deg = config.undercut_angle_threshold_deg
        /\ Checks.rib_boss.factor = Some(config.rib_boss_factor)
        /\ LET fn == compute_face_normals(vertices, faces).normals
           IN /\ Checks.draft_angle.per_face_draft_angle =
                    [f \in DOMAIN faces |-> SurdAbs(FaceDot(fn[f], UnitPull(pull_direction)))]
              /\ Checks.undercuts.bad_face_mask =
                    [f \in DOMAIN faces |->
                        DotBelow(FaceDot(fn[f], UnitPull(pull_direction)),
                                 CosThreshold(Checks.undercuts.angle_threshold_deg))]

\* C7: for every structurally valid mesh the call returns, and each of the six
\* results has a status in {OK, WARNING, UNKNOWN} and a message.
C7_WellFormedResults ==
    (Calls > 0 /\ StructurallyValid(vertices, faces))
        => /\ Returned
           /\ \A c \in CheckNames :
                 /\ Checks[c].status \in Statuses
                 /\ Len(Checks[c].message) >= 1
\* a valid mesh with a zero-area face and an isolated vertex, analysed
C7_Witness ==
    /\ Returned /\ StructurallyValid(vertices, faces)
    /\ ZeroAreaFaces # {}
    /\ \E v \in DOMAIN vertices : \A f \in DOMAIN faces : \A k \in 1..3 : faces[f][k] # v
    /\ \E c \in CheckNames : Checks[c].status = "UNKNOWN"
    /\ \E c \in CheckNames : Checks[c].status = "WARNING"

C10_NoWarningWithoutData ==
    (Returned /\ NoFiniteThickness) =>
        /\ Checks.local_thickness.status # "WARNING"
        /\ Checks.rib_boss.status # "WARNING"
\* C10 amended: with no finite thickness estimate the rib_boss result is not a
\* WARNING, and the local_thickness result is a WARNING exactly when the smallest
\* bounding-box extent is below min_local_thickness.
C10_WarningOnlyFromFallback ==
    (Returned /\ NoFiniteThickness) =>
        /\ Checks.rib_boss.status # "WARNING"
        /\ Checks.local_thickness.status \in {"OK", "WARNING"}
        /\ Checks.local_thickness.status = "WARNING"
              <=> MinExtent(results.bbox.extents) < config.min_local_thickness
C10_Witness ==
    /\ Returned /\ NoFiniteThickness
    /\ Checks.local_thickness.status = "WARNING"
    /\ Checks.rib_boss.status = "UNKNOWN"

\* ------------------------------------------------- properties of the estimators
FaceNormals == compute_face_normals(vertices, faces).normals
VertexNormals == compute_vertex_normals(vertices, faces, FaceNormals, FaceAreas)
Local == Checks.local_thickness
FiniteVertices == {i \in DOMAIN vertices : Local.per_vertex_thickness[i] < Infinity}
\* the smallest extent of the axis-aligned bounding box, from the vertices
BoxExtent(k) ==
    LET xs == {vertices[i][k] : i \in DOMAIN vertices}
    IN 100 * ((CHOOSE x \in xs : \A y \in xs : y <= x) - (CHOOSE x \in xs : \A y \in xs : x <= y))
SmallestExtent == CHOOSE x \in {BoxExtent(k) : k \in 1..3} : \A k \in 1..3 : x <= BoxExtent(k)

\* C11: for a fixed mesh the number of thin vertices reported by
\* check_local_wall_thickness does not decrease when min_local_thickness grows.
LocalThresholds == {50, 80, 120, 250}
\* num_thin_vertices of check_local_wall_thickness on the caller's mesh, per threshold
NumThin(thresholds) ==
    LET vn == VertexNormals
        ext == Extents(vertices)
    IN [th \in thresholds |->
           check_local_wall_thickness(vertices, faces, vn, ext, th).num_thin_vertices]
C11_ThresholdMonotone ==
    Returned =>
        LET num == NumThin(LocalThresholds)
        IN /\ Local.num_thin_vertices = num[config.min_local_thickness]
           /\ \A a \in LocalThresholds : \A b \in LocalThresholds :
                 a <= b => num[a] <= num[b]
\* a mesh with finite estimates on which a larger threshold reports more thin
\* vertices than the configured one, which already reports some
C11_Witness ==
    /\ Returned /\ FiniteVertices # {}
    /\ Local.num_thin_vertices > 0
    /\ \E b \in LocalThresholds : NumThin({b})[b] > Local.num_thin_vertices

\* C12: every face that check_undercuts flags makes an angle with the pull
\* direction that is strictly greater than angle_threshold_deg, so a face whose
\* normal is perpendicular to the pull direction is not flagged at 90 degrees.
C12_FlaggedFacesExceedThreshold ==
    Returned =>
        \A f \in (DOMAIN faces) \ ZeroAreaFaces :
            Checks.undercuts.bad_face_mask[f] =>
                AngleExceeds(FaceDot(FaceNormals[f], UnitPull(pull_direction)),
                             Checks.undercuts.angle_threshold_deg)

\* C13: the global thickness result is WARNING exactly when the smallest extent
\* of the bounding box is strictly below min_global_thickness, and OK otherwise;
\* it reports that extent and that threshold.  A 20 x 20 x 0.3 plate warns at
\* the default threshold and the cube of side 10 does not.
C13_GlobalThicknessStatus ==
    /\ GlobalThickness(<<2000, 2000, 30>>, MIN_GLOBAL_THICKNESS).status = "WARNING"
    /\ Returned =>
          /\ Checks.global_thickness.smallest_dimension = SmallestExtent
          /\ Checks.global_thickness.min_allowed = config.min_global_thickness
          /\ Checks.global_thickness.status =
                (IF SmallestExtent < config.min_global_thickness THEN "WARNING" ELSE "OK")
    /\ (Returned /\ vertices = CubeVertices /\ config = DefaultConfig)
          => Checks.global_thickness.status = "OK"
\* a mesh whose smallest extent equals the configured threshold, reported OK
C13_Witness ==
    /\ Returned
    /\ SmallestExtent = config.min_global_thickness
    /\ Checks.global_thickness.status = "OK"

\* C14: with a finite estimate, min_thickness is the least finite estimate,
\* num_thin_vertices counts the finite estimates strictly below the threshold,
\* and the status is WARNING exactly when that count is positive.
C14_FinitePathReport ==
    (Returned /\ FiniteVertices # {}) =>
        /\ \E i \in FiniteVertices : Local.min_thickness = Local.per_vertex_thickness[i]
        /\ \A i \in FiniteVertices : Local.min_thickness <= Local.per_vertex_thickness[i]
        /\ Local.num_thin_vertices =
              Cardinality({i \in FiniteVertices :
                              Local.per_vertex_thickness[i] < config.min_local_thickness})
        /\ Local.status = (IF Local.num_thin_vertices > 0 THEN "WARNING" ELSE "OK")
\* finite estimates of which some, not all, are below the threshold, next to a
\* vertex without an estimate
C14_Witness ==
    /\ Returned
    /\ Local.status = "WARNING"
    /\ Local.num_thin_vertices < Cardinality(FiniteVertices)
    /\ FiniteVertices # DOMAIN vertices

\* C15: every face normal and every vertex normal is of unit length or the zero
\* vector, and never NaN; a face area is never negative and a zero-area face
\* has the zero normal.
IsUnitOrZero(n) ==
    /\ n.len2 > 0                                   \* no division by zero: not NaN
    /\ n.dir = Zero3 \/ Dot3(n.dir, n.dir) = n.len2  \* |dir / sqrt(len2)| = 1
C15_NormalsUnitOrZero ==
    RunAllChecksError(vertices, faces) = "no error" =>
        /\ \A f \in DOMAIN faces :
              /\ IsUnitOrZero(FaceNormals[f])
              /\ FaceAreas[f] >= 0
              /\ FaceAreas[f] = 0 => FaceNormals[f].dir = Zero3
        /\ \A v \in DOMAIN vertices : IsUnitOrZero(VertexNormals[v])
\* a mesh, analysed, with a zero-area face next to a face with an area, an
\* isolated vertex and a vertex with a normal
C15_Witness ==
    /\ Returned
    /\ ZeroAreaFaces # {} /\ ZeroAreaFaces # DOMAIN faces
    /\ \E v \in DOMAIN vertices : \A f \in DOMAIN faces : \A k \in 1..3 : faces[f][k] # v
    /\ \E v \in DOMAIN vertices : VertexNormals[v].dir # Zero3

\* C16: load_mesh with a path that is not an existing file raises
\* FileNotFoundError before it has called trimesh or pyvista, and returns nothing.
C16_MissingFileRaises ==
    (load_outcome # "none" /\ files[path] \in {"absent", "directory"}) =>
        /\ load_outcome = "FileNotFoundError"
        /\ loader_calls = <<>>
\* the call has raised for a path that names nothing, next to a mesh file
C16_Witness ==
    /\ load_outcome = "FileNotFoundError"
    /\ files[path] = "absent"
    /\ \E n \in PathNames : files[n] = "mesh file"

\* C17: with no finite estimate, min_thickness is the smallest bounding-box
\* extent, the status is WARNING exactly when that extent is strictly below the
\* threshold, num_thin_vertices is 0 and every per-vertex entry is the infinite
\* sentinel; the cube of side 10 takes this path and is OK at the defaults.
C17_FallbackReport ==
    /\ (Returned /\ FiniteVertices = {}) =>
          /\ Local.min_thickness = SmallestExtent
          /\ Local.status =
                (IF SmallestExtent < config.min_local_thickness THEN "WARNING" ELSE "OK")
          /\ Local.num_thin_vertices = 0
          /\ Local.per_vertex_thickness = [i \in DOMAIN vertices |-> Infinity]
    /\ (Returned /\ vertices = CubeVertices /\ faces = CubeFaces /\ config = DefaultConfig) =>
          /\ FiniteVertices = {}
          /\ Local.status = "OK"
C17_Witness ==
    /\ Returned /\ vertices = CubeVertices /\ config = DefaultConfig
    /\ FiniteVertices = {}
    /\ Local.status = "OK"
    /\ Local.min_thickness = 1000

\* C18: per_vertex_thickness has one entry per vertex; entry i is the smallest
\* strictly positive projection of v_j - v_i onto the vertex normal n_i over the
\* vertices j # i among the min(32, V) nearest to v_i, and the infinite sentinel
\* when n_i is zero or there is no such projection.
Distance2(i, j) == Dot3(Sub3(vertices[j], vertices[i]), Sub3(vertices[j], vertices[i]))
Neighbours(i) ==
    LET V == Cardinality(DOMAIN vertices)
        k == IF V < 32 THEN V ELSE 32
    IN {j \in DOMAIN vertices :
           Cardinality({a \in DOMAIN vertices : Distance2(i, a) < Distance2(i, j)}) < k}
Projection(i, j) == Dot3(Sub3(vertices[j], vertices[i]), VertexNormals[i].dir)
PositiveProjections(i) ==
    {Projection(i, j) : j \in {a \in Neighbours(i) \ {i} : Projection(i, a) > 0}}
C18_PerVertexThickness ==
    Returned =>
        /\ DOMAIN Local.per_vertex_thickness = DOMAIN vertices
        /\ \A i \in DOMAIN vertices :
              Local.per_vertex_thickness[i] =
                 IF VertexNormals[i].dir = Zero3 \/ PositiveProjections(i) = {}
                 THEN Infinity
                 ELSE ToThickness(CHOOSE x \in PositiveProjections(i) :
                                     \A y \in PositiveProjections(i) : x <= y,
                                  VertexNormals[i].len2)
\* more than 32 vertices: the only vertex with a positive projection onto the
\* normal of vertex 0 is the farthest one, outside its 32 nearest neighbours
C18_Witness ==
    /\ Returned /\ vertices = GridVertices
    /\ VertexNormals[0].dir # Zero3
    /\ \E j \in DOMAIN vertices : Projection(0, j) > 0
    /\ Local.per_vertex_thickness[0] = Infinity

\* C19: only an edge that exactly two faces reference is analysed: an edge of
\* one face, or of three or more, adds nothing to num_sharp_edges, to
\* max_sharp_angle_deg or to corner_vertex_mask.
FacesOfEdge(e) == {f \in DOMAIN faces : \E slot \in 1..3 : EdgeKey(faces[f], slot) = e}
TwoFaceEdges == {e \in EdgeKeys(faces) : Cardinality(FacesOfEdge(e)) = 2}
Sharp == Checks.sharp_corners
C19_OnlyTwoFaceEdgesAnalysed ==
    Returned =>
        /\ TwoFaceEdges = {} =>
              /\ Sharp.num_sharp_edges = 0
              /\ Sharp.max_sharp_angle_deg = AngleZero
        /\ \A v \in DOMAIN vertices :
              Sharp.corner_vertex_mask[v] =>
                 \E e \in TwoFaceEdges : PyIndex(e[1], Len0(vertices)) = v
                                         \/ PyIndex(e[2], Len0(vertices)) = v
        /\ Sharp.num_sharp_edges <= Cardinality(TwoFaceEdges)

\* C20: num_sharp_edges is the number of edges shared by exactly two faces whose
\* normals make an angle strictly greater than the threshold,
\* corner_vertex_mask marks exactly the endpoints of those edges, and the
\* status is WARNING exactly when there is one.
DihedralCos(e) ==
    LET f1 == CHOOSE f \in FacesOfEdge(e) : \A g \in FacesOfEdge(e) : f <= g
        f2 == CHOOSE f \in FacesOfEdge(e) : \A g \in FacesOfEdge(e) : g <= f
    IN Surd(Dot3(FaceNormals[f1].dir, FaceNormals[f2].dir),
            FaceNormals[f1].len2 * FaceNormals[f2].len2)
SharpTwoFaceEdges ==
    {e \in TwoFaceEdges : SurdLess(DihedralCos(e), CosDeg(Sharp.angle_threshold_deg))}
C20_SharpEdgeReport ==
    Returned =>
        /\ Sharp.num_sharp_edges = Cardinality(SharpTwoFaceEdges)
        /\ \A v \in DOMAIN vertices :
              Sharp.corner_vertex_mask[v] <=>
                 \E e \in SharpTwoFaceEdges : PyIndex(e[1], Len0(vertices)) = v
                                              \/ PyIndex(e[2], Len0(vertices)) = v
        /\ Sharp.status = (IF Sharp.num_sharp_edges > 0 THEN "WARNING" ELSE "OK")

\* ------------------------------------------ properties of the draft and undercut checks
\* the pull direction that the last call was passed
PullPassed == history[Calls].pull_direction
\* the direction the checks use for a pull direction: +Z for None and for the zero vector
PullAxis(pull) == IF pull = None \/ pull = Zero3 THEN PlusZ ELSE pull
\* cosine of the angle between a normal and a pull direction (0 for a zero normal)
AngleCos(n, pull) == Surd(Dot3(n.dir, PullAxis(pull)), n.len2 * Norm2(PullAxis(pull)))
\* the draft angle |90 - angle| of a normal, as its sine
DraftSine(n, pull) == SurdAbs(AngleCos(n, pull))
FacesOfVertex(v, fs) ==
    {f \in fs : \E k \in 1..3 : PyIndex(faces[f][k], Len0(vertices)) = v}
\* a draft report r for the caller's mesh, pull direction pull and threshold deg
DraftReportAsClaimed(r, pull, deg) ==
    LET draft(f) == DraftSine(FaceNormals[f], pull)
        bad == {f \in DOMAIN faces : SurdLess(draft(f), SinDeg(deg))}
    IN /\ \A f \in DOMAIN faces : r.bad_face_mask[f] <=> f \in bad
       /\ r.num_bad_faces = Cardinality(bad)
       /\ DOMAIN faces # {} =>
             /\ \E f \in DOMAIN faces : r.min_draft_angle = draft(f)
             /\ \A f \in DOMAIN faces : SurdLeq(r.min_draft_angle, draft(f))
       /\ \A v \in DOMAIN vertices : r.bad_vertex_mask[v] <=> FacesOfVertex(v, bad) # {}
       /\ r.status = (IF Cardinality(bad) > 0 THEN "WARNING" ELSE "OK")
       /\ \A f \in (DOMAIN faces) \ ZeroAreaFaces :
             /\ Cross3(FaceNormals[f].dir, PullAxis(pull)) = Zero3 =>
                   /\ r.per_face_draft_angle[f] = SinDeg(90)
                   /\ ~r.bad_face_mask[f]
             /\ Dot3(FaceNormals[f].dir, PullAxis(pull)) = 0 =>
                   /\ r.per_face_draft_angle[f] = SinDeg(0)
                   /\ r.bad_face_mask[f]

\* C21: check_draft_angle marks a face bad exactly when its draft angle
\* |90 - angle(normal, pull)| is strictly below the threshold; num_bad_faces
\* counts those faces, min_draft_angle is the least draft angle of all faces,
\* bad_vertex_mask marks exactly the vertices of bad faces and the status is
\* WARNING exactly when a face is bad.  A normal parallel to the pull direction
\* has draft 90 (not bad), a perpendicular one has draft 0 (bad).
C21_DraftReport ==
    Returned =>
        /\ DraftReportAsClaimed(Checks.draft_angle, PullPassed, DRAFT_MIN_ANGLE_DEG)
        /\ DraftReportAsClaimed(check_draft_angle(faces, FaceNormals, Len0(vertices),
                                                  PullPassed, 45),
                                PullPassed, 45)
\* a pull direction that is neither +Z nor of unit length, with one face
\* perpendicular to it (bad) and one face parallel to it (not bad)
C21_Witness ==
    /\ Returned /\ PullPassed \notin {None, Zero3, PlusZ} /\ Norm2(PullPassed) # 1
    /\ Checks.draft_angle.num_bad_faces = 1
    /\ \E f \in DOMAIN faces :
          /\ Checks.draft_angle.bad_face_mask[f]
          /\ Checks.draft_angle.per_face_draft_angle[f] = SinDeg(0)
    /\ \E f \in DOMAIN faces :
          /\ ~Checks.draft_angle.bad_face_mask[f]
          /\ Checks.draft_angle.per_face_draft_angle[f] = SinDeg(90)

\* C22: check_undercuts reports the number of flagged faces, WARNING exactly
\* when that number is positive, as max_undercut_angle_deg the largest angle of
\* a flagged face (None when no face is flagged), and a bad_vertex_mask that
\* marks exactly the vertices of the flagged faces.
Undercuts == Checks.undercuts
FlaggedFaces == {f \in DOMAIN faces : Undercuts.bad_face_mask[f]}
C22_UndercutReport ==
    Returned =>
        /\ Undercuts.num_undercut_faces = Cardinality(FlaggedFaces)
        /\ Undercuts.status = (IF Cardinality(FlaggedFaces) > 0 THEN "WARNING" ELSE "OK")
        /\ FlaggedFaces = {} => Undercuts.max_undercut_angle_deg = None
        /\ FlaggedFaces # {} =>
              /\ \E f \in FlaggedFaces :
                    Undercuts.max_undercut_angle_deg = Some(AngleCos(FaceNormals[f], PullPassed))
              /\ \A f \in FlaggedFaces :
                    SurdLeq(Undercuts.max_undercut_angle_deg[1],
                            AngleCos(FaceNormals[f], PullPassed))
        /\ \A v \in DOMAIN vertices :
              Undercuts.bad_vertex_mask[v] <=> FacesOfVertex(v, FlaggedFaces) # {}
\* flagged faces at different angles next to a face that is not flagged
C22_Witness ==
    /\ Returned /\ Cardinality(FlaggedFaces) >= 2
    /\ \E f \in FlaggedFaces : \E g \in FlaggedFaces :
          SurdLess(AngleCos(FaceNormals[f], PullPassed), AngleCos(FaceNormals[g], PullPassed))
    /\ FlaggedFaces # DOMAIN faces
    /\ Undercuts.status = "WARNING"

\* ------------------------------------------------- properties of the rib/boss check
\* the middle value of the finite entries of t, or the mean of the two middle values
MedianOfFinite(t) ==
    LET fin == {i \in DOMAIN t : t[i] < Infinity}
        n == Cardinality(fin)
        rank(x) == Cardinality({i \in fin : t[i] < x})
        count(x) == Cardinality({i \in fin : t[i] <= x})
        at(k) == CHOOSE x \in {t[i] : i \in fin} : rank(x) <= k /\ k < count(x)
    IN (at((n - 1) \div 2) + at(n \div 2)) \div 2
\* a rib/boss report r for the thickness array t, nominal wall base (or None) and factor
RibBossAsClaimed(r, t, base, factor) ==
    LET fin == {i \in DOMAIN t : t[i] < Infinity}
        nominal == IF base = None THEN MedianOfFinite(t) ELSE base[1]
        over == {i \in fin : 100 * t[i] > nominal * factor}
    IN fin # {} =>
          /\ r.base_wall_thickness = Some(nominal)
          /\ r.threshold = Some(nominal * factor)
          /\ r.bad_vertex_mask = [i \in DOMAIN t |-> i \in over]
          /\ r.num_over_thick_vertices = Cardinality(over)
          /\ r.status = (IF Cardinality(over) > 0 THEN "WARNING" ELSE "OK")
\* thickness arrays with median 1.0: one vertex at 2.0, and one vertex at 1.5
ScenarioF == ToArray(<<100, 100, 100, 200, Infinity>>)
ScenarioFAtThreshold == ToArray(<<100, 100, 150>>)
RibBoss == Checks.rib_boss
Thickness == Local.per_vertex_thickness

\* C23: with a finite thickness, check_rib_boss_thickness takes as nominal wall
\* the value of the caller or else the median of the finite values, reports
\* threshold = nominal x factor, flags exactly the vertices whose thickness is
\* finite and strictly above the threshold and warns exactly when it flags one.
\* With median 1.0, factor 1.5 and one vertex at 2.0 the threshold is 1.5 and
\* that vertex is flagged.
C23_RibBossReport ==
    /\ LET r == check_rib_boss_thickness(ScenarioF, None, DEFAULT_RIB_BOSS_FACTOR)
       IN /\ r.base_wall_thickness = Some(100)
          /\ r.threshold = Some(100 * 150)
          /\ r.bad_vertex_mask = [i \in 0..4 |-> i = 3]
          /\ r.status = "WARNING"
    /\ check_rib_boss_thickness(ScenarioFAtThreshold, None, DEFAULT_RIB_BOSS_FACTOR).status = "OK"
    /\ Returned =>
          /\ RibBossAsClaimed(RibBoss, Thickness, None, DEFAULT_RIB_BOSS_FACTOR)
          /\ \A base \in {None, Some(50), Some(100)} : \A factor \in {100, 150, 200} :
                RibBossAsClaimed(check_rib_boss_thickness(Thickness, base, factor),
                                 Thickness, base, factor)
\* a report that flags a vertex, next to finite thicknesses it does not flag
\* and a vertex without a thickness
C23_Witness ==
    /\ Returned /\ RibBoss.status = "WARNING"
    /\ \E i \in DOMAIN vertices : Thickness[i] < Infinity /\ ~RibBoss.bad_vertex_mask[i]
    /\ \E i \in DOMAIN vertices : Thickness[i] = Infinity

\* C24: with pull direction None or the zero vector, check_draft_angle and
\* check_undercuts return what they return for +Z; any other pull direction is
\* normalised, so two pull directions that differ only in length give the same
\* results.
ScaledPulls == PullDirections \cup {<<0, 0, 3>>, <<3, 0, 0>>, <<0, -1, 0>>, <<0, 0, -2>>}
SameDirection(p, q) == Cross3(p, q) = Zero3 /\ Dot3(p, q) > 0
DraftFor(pull) ==
    check_draft_angle(faces, FaceNormals, Len0(vertices), pull, DRAFT_MIN_ANGLE_DEG)
UndercutsFor(pull) ==
    check_undercuts(faces, FaceNormals, Len0(vertices), pull, DEFAULT_UNDERCUT_ANGLE_DEG)
C24_PullDirectionNormalised ==
    Returned =>
        /\ Checks.draft_angle = DraftFor(PullPassed)
        /\ Undercuts = UndercutsFor(PullPassed)
        /\ \A p \in {None, Zero3} :
              /\ DraftFor(p) = DraftFor(PlusZ)
              /\ UndercutsFor(p) = UndercutsFor(PlusZ)
        /\ \A p \in ScaledPulls \ {None, Zero3} : \A q \in ScaledPulls \ {None, Zero3} :
              SameDirection(p, q) =>
                 /\ DraftFor(p) = DraftFor(q)
                 /\ UndercutsFor(p) = UndercutsFor(q)
\* a call with a pull direction of length 2 whose draft and undercut results
\* both differ from those for +Z
C24_Witness ==
    /\ Returned /\ PullPassed \notin {None, Zero3} /\ Norm2(PullPassed) = 4
    /\ Checks.draft_angle # DraftFor(PlusZ)
    /\ Undercuts # UndercutsFor(PlusZ)
    /\ Undercuts.status = "WARNING"

\* C25: the two faces compared at an edge that check_sharp_corners treats as
\* interior are two different faces: a face that names one vertex twice does
\* not make its own edge interior and is never compared with itself.
SelfComparedEdges ==
    {e \in InteriorEdges(faces) : EdgeFaces(faces, e)[1] = EdgeFaces(faces, e)[2]}
C25_InteriorEdgeHasTwoFaces ==
    Returned =>
        /\ SelfComparedEdges = {}
        /\ \A e \in InteriorEdges(faces) : Cardinality(FacesOfEdge(e)) = 2

\* C26: with the median as nominal wall, a factor of at least 1 and positive
\* finite thicknesses, check_rib_boss_thickness flags at most floor(n/2) of the
\* n vertices with a finite thickness and only such vertices, never all the
\* vertices, and reports max_thickness >= base_wall_thickness.
FiniteEntries(t) == {i \in DOMAIN t : t[i] < Infinity}
FlaggedBy(r, t) == {i \in DOMAIN t : r.bad_vertex_mask[i]}
MedianBounds(r, t) ==
    (FiniteEntries(t) # {} /\ \A i \in FiniteEntries(t) : t[i] > 0) =>
        /\ 2 * Cardinality(FlaggedBy(r, t)) <= Cardinality(FiniteEntries(t))
        /\ r.num_over_thick_vertices <= Cardinality(FiniteEntries(t)) \div 2
        /\ FlaggedBy(r, t) \subseteq FiniteEntries(t)
        /\ FlaggedBy(r, t) # DOMAIN t
        /\ r.max_thickness[1] >= r.base_wall_thickness[1]
C26_MedianBoundsFlagged ==
    /\ \A t \in {ScenarioF, ScenarioFAtThreshold} :
          MedianBounds(check_rib_boss_thickness(t, None, 100), t)
    /\ Returned =>
          /\ MedianBounds(RibBoss, Thickness)
          /\ \A factor \in {100, 150, 200} :
                MedianBounds(check_rib_boss_thickness(Thickness, None, factor), Thickness)
\* a report on three or more finite thicknesses that flags as many vertices as
\* the bound allows
C26_Witness ==
    /\ Returned /\ Cardinality(FiniteEntries(Thickness)) >= 3
    /\ RibBoss.num_over_thick_vertices = Cardinality(FiniteEntries(Thickness)) \div 2
    /\ RibBoss.max_thickness[1] > RibBoss.base_wall_thickness[1]

\* C27: every finite entry of per_vertex_thickness is strictly positive, and
\* with a finite entry the reported min_thickness is strictly positive and at
\* most every finite entry.
C27_FiniteThicknessPositive ==
    Returned =>
        /\ \A i \in DOMAIN vertices : Thickness[i] < Infinity => Thickness[i] > 0
        /\ FiniteVertices # {} =>
              /\ Local.min_thickness > 0
              /\ \A i \in FiniteVertices : Local.min_thickness <= Thickness[i]
\* a vertex with a finite thickness that has a neighbour at projection 0 and a
\* neighbour at a negative projection, and two different finite thicknesses
C27_Witness ==
    /\ Returned
    /\ \E i \in FiniteVertices :
          /\ \E j \in Neighbours(i) \ {i} : Projection(i, j) = 0
          /\ \E j \in Neighbours(i) \ {i} : Projection(i, j) < 0
    /\ \E i \in FiniteVertices : Local.min_thickness < Thickness[i]

\* C30: in every result the count equals the number of True entries of its
\* mask (bad faces of the draft check, undercut faces, over-thick vertices);
\* every per-vertex mask has one entry per vertex and every per-face mask one
\* entry per face.
TrueEntries(mask) == {i \in DOMAIN mask : mask[i]}
C30_CountsMatchMasks ==
    Returned =>
        /\ DOMAIN Checks.draft_angle.bad_face_mask = DOMAIN faces
        /\ DOMAIN Undercuts.bad_face_mask = DOMAIN faces
        /\ DOMAIN Checks.draft_angle.bad_vertex_mask = DOMAIN vertices
        /\ DOMAIN Undercuts.bad_vertex_mask = DOMAIN vertices
        /\ DOMAIN RibBoss.bad_vertex_mask = DOMAIN vertices
        /\ DOMAIN Sharp.corner_vertex_mask = DOMAIN vertices
        /\ Checks.draft_angle.num_bad_faces =
              Cardinality(TrueEntries(Checks.draft_angle.bad_face_mask))
        /\ Undercuts.num_undercut_faces = Cardinality(TrueEntries(Undercuts.bad_face_mask))
        /\ RibBoss.num_over_thick_vertices = Cardinality(TrueEntries(RibBoss.bad_vertex_mask))
\* a report on a mesh with more vertices than faces in which each of the three
\* counts is positive and the rib/boss mask has a False entry
C30_Witness ==
    /\ Returned /\ Len0(vertices) > Len0(faces)
    /\ Checks.draft_angle.num_bad_faces > 0
    /\ Undercuts.num_undercut_faces > 0
    /\ RibBoss.num_over_thick_vertices > 0
    /\ TrueEntries(RibBoss.bad_vertex_mask) # DOMAIN vertices
    /\ TrueEntries(Undercuts.bad_face_mask) # TrueEntries(Checks.draft_angle.bad_face_mask)

\* ------------------------------------------------------ properties of the main window
\* the last event showed the "Error Loading STL" box: a load_and_display_stl
\* call of the event left its try block by an exception
LoadFailed(boxes) == \E k \in DOMAIN boxes : boxes[k].box = "critical"
\* the report of run_all_checks for a file under the controls of the window
ReportFor(file_path) ==
    (CHOOSE a \in Analyses : /\ a.file_path = file_path
                             /\ a.spin_global = window.spin_global
                             /\ a.spin_local = window.spin_local
                             /\ a.combo_pull = window.combo_pull).dfm_results
BothOrNeither == (window.last_dfm_results = None) <=> (window.last_file_path = None)
StoredAfterSuccess ==
    window.last_file_path # None =>
        /\ LoadError(window.last_file_path[1]) = "no error"
        /\ window.last_dfm_results = Some(ReportFor(window.last_file_path[1]))

\* C28: last_dfm_results and last_file_path are both None or both set, and are
\* set only to a file that load_stl and run_all_checks accepted and to its
\* report; an event in which load_and_display_stl fails while loading or
\* analysing leaves both as they were, and export_dfm_report writes no file
\* while last_dfm_results is None.
C28_ResultsAndPathTogether ==
    /\ [](BothOrNeither /\ StoredAfterSuccess)
    /\ [][/\ LoadFailed(popups') =>
                /\ window'.last_dfm_results = window.last_dfm_results
                /\ window'.last_file_path = window.last_file_path
          /\ window.last_dfm_results = None => written' = written]_vars
\* a file that cannot be read was opened after another file had been analysed:
\* the error box is up and the earlier file and its report are still stored
C28_Witness ==
    /\ event = "open_stl_dialog" /\ LoadFailed(popups)
    /\ window.last_file_path = Some("wedge.stl")
    /\ window.last_dfm_results # None
    /\ window.spin_local # LOCAL_MIN_THICKNESS

\* C29: a warning popup is shown for a check only if that check is the active
\* highlighted check and its status is WARNING; at most one check's defect
\* mask is coloured at a time; right after open_stl_dialog no warning popup is
\* shown and no vertex is coloured as a defect.
WarningsShown == {popups[k].check : k \in {j \in DOMAIN popups : popups[j].box = "warning"}}
RedVertices == IF window.mesh_item = None THEN {} ELSE window.mesh_item[1].red
C29_PopupsAndHighlight ==
    /\ \A c \in WarningsShown :
          /\ window.active_visual_check = Some(c)
          /\ window.last_dfm_results[1].checks[c].status = "WARNING"
    /\ Cardinality(WarningsShown) <= 1
    /\ window.mesh_item # None =>
          RedVertices = DefectMask(window.last_dfm_results[1].checks,
                                   window.last_dfm_results[1].normals_info.num_vertices,
                                   window.mesh_item[1].active_check)
    /\ event = "open_stl_dialog" =>
          /\ window.active_visual_check = None
          /\ WarningsShown = {}
          /\ RedVertices = {}

====
